---- MODULE Spec2Model ----
(***************************************************************************)
(* Model of app.py, a Streamlit page that extracts lexical features from a *)
(* URL (extract_features), hands them to a pre-trained classifier and      *)
(* renders the verdict.                                                    *)
(*                                                                         *)
(* Strings are sequences of one-character strings.  The module has two     *)
(* specifications over the same variables:                                 *)
(*   SpecFx  calls extract_features on one argument drawn from Inputs;     *)
(*   Spec    is one browser session: Streamlit runs the script from its    *)
(*           first line to its last once when the session opens and once   *)
(*           more for every interaction.                                   *)
(***************************************************************************)
EXTENDS Integers, Sequences, FiniteSets, TLC

VARIABLES
    url,              \* SpecFx: the argument of the call of extract_features
    result,           \* SpecFx: what the call produced
    artifact,         \* what joblib.load finds at 'phishing_model.pkl'
    has_importances,  \* hasattr(model, 'feature_importances_')
    user_input,       \* value of the st.text_input widget
    clicked,          \* value of st.button in the current script run
    pc,               \* position of the current script run
    model,            \* the global `model` of the current run (0: unbound)
    loads,            \* number of objects joblib.load has returned so far
    features_df,      \* the local features_df of the handler
    prediction,       \* prediction[0]
    prediction_proba, \* prediction_proba[0], in percent
    model_used,       \* the model objects predict / predict_proba were called on
    exc,              \* the exception in flight inside the try block
    raised,           \* exceptions raised inside the try block in this run
    caught,           \* entries into the except clause in this run
    handled,          \* entries into the except clause in this session
    calls,            \* calls of extract_features / predict / predict_proba in this run
    display,          \* the elements the current run has put on the page
    widgets,          \* the run has rendered the text input and the button
    runs              \* script runs started in this session

vars == <<url, result, artifact, has_importances, user_input, clicked, pc, model,
          loads, features_df, prediction, prediction_proba, model_used, exc,
          raised, caught, handled, calls, display, widgets, runs>>

----------------------------------------------------------------------------
(* Bounds of the model *)

\* longest string enumerated over Alphabet
MaxLen == 3

\* script runs in one session
MaxRuns == 4

----------------------------------------------------------------------------
(* Characters *)

\* the printable ASCII characters, code 32 first; code 96 (the grave accent, which
\* a TLA+ string cannot hold) is written "grave"
Printable ==
    <<" ", "!", "\"", "#", "$", "%", "&", "'", "(", ")", "*", "+", ",", "-", ".", "/",
      "0", "1", "2", "3", "4", "5", "6", "7", "8", "9", ":", ";", "<", "=", ">", "?",
      "@", "A", "B", "C", "D", "E", "F", "G", "H", "I", "J", "K", "L", "M", "N", "O",
      "P", "Q", "R", "S", "T", "U", "V", "W", "X", "Y", "Z", "[", "\\", "]", "^", "_",
      "grave", "a", "b", "c", "d", "e", "f", "g", "h", "i", "j", "k", "l", "m", "n", "o",
      "p", "q", "r", "s", "t", "u", "v", "w", "x", "y", "z", "{", "|", "}", "~">>

Chars == {Printable[i] : i \in 1..Len(Printable)} \cup {"\t", "\n"}

OrdTable ==
    [c \in Chars |->
        IF c = "\t" THEN 9
        ELSE IF c = "\n" THEN 10
        ELSE 31 + (CHOOSE i \in 1..Len(Printable) : Printable[i] = c)]

Ord(c) == OrdTable[c]

Chr(n) == Printable[n - 31]

IsDigit(c) == Ord("0") <= Ord(c) /\ Ord(c) <= Ord("9")

IsUpper(c) == Ord("A") <= Ord(c) /\ Ord(c) <= Ord("Z")

IsAlpha(c) == IsUpper(c) \/ (Ord("a") <= Ord(c) /\ Ord(c) <= Ord("z"))

\* str.lower() on one character
LowerChar(c) == IF IsUpper(c) THEN Chr(Ord(c) + 32) ELSE c

Lower(s) == [i \in 1..Len(s) |-> LowerChar(s[i])]

----------------------------------------------------------------------------
(* String operations of Python used by the code *)

\* s[i:] with a 0-based i
From(s, i) == SubSeq(s, i + 1, Len(s))

\* s[i:j] with 0-based i, j
Slice(s, i, j) == SubSeq(s, i + 1, j)

\* c in s
Contains(s, c) == \E i \in 1..Len(s) : s[i] = c

\* s.count(c)
Count(s, c) == Cardinality({i \in 1..Len(s) : s[i] = c})

\* s.find(c, start): 0-based index of the first c at or after start, -1 if none
Find(s, c, start) ==
    LET hits == {i \in (start + 1)..Len(s) : s[i] = c}
    IN  IF hits = {} THEN -1
        ELSE (CHOOSE i \in hits : \A j \in hits : i <= j) - 1

\* s.startswith(c), s.endswith(c)
StartsWith(s, c) == Len(s) > 0 /\ s[1] = c

EndsWith(s, c) == Len(s) > 0 /\ s[Len(s)] = c

\* s.split(c): never empty, "".split(c) is [""]
RECURSIVE Split(_, _)
Split(s, c) ==
    LET i == Find(s, c, 0)
    IN  IF i < 0 THEN <<s>>
        ELSE <<Slice(s, 0, i)>> \o Split(From(s, i + 1), c)

\* s.lstrip(_WHATWG_C0_CONTROL_OR_SPACE): drops leading characters of code <= 32
RECURSIVE LStrip(_)
LStrip(s) ==
    IF Len(s) > 0 /\ Ord(s[1]) <= 32 THEN LStrip(Tail(s)) ELSE s

\* s.replace(b, "") for every b of _UNSAFE_URL_BYTES_TO_REMOVE (tab, CR, LF)
RemoveUnsafe(s) == SelectSeq(s, LAMBDA c : c \notin {"\t", "\n"})

----------------------------------------------------------------------------
(* urllib.parse.urlparse, as far as the code reads its result *)

\* scheme_chars: letters, digits and "+-."
IsSchemeChar(c) == IsAlpha(c) \/ IsDigit(c) \/ c \in {"+", "-", "."}

\* _splitnetloc(url, start)[0]: url[start:delim], delim the first of "/?#" at or
\* after start, the end of url if there is none
SplitNetlocOffByOne(u, start) ==
    LET found == {Find(u, c, start - 1) : c \in {"/", "?", "#"}} \ {-1}
        delim == IF found = {} THEN Len(u)
                 ELSE CHOOSE d \in found : \A e \in found : d <= e
    IN  Slice(u, start, delim)

SplitNetloc(u, start) ==
    LET found == {Find(u, c, start) : c \in {"/", "?", "#"}} \ {-1}
        delim == IF found = {} THEN Len(u)
                 ELSE CHOOSE d \in found : \A e \in found : d <= e
    IN  Slice(u, start, delim)

\* urlparse(u): the scheme and netloc of the result, or raises ValueError.
\* host_ok is the verdict of _check_bracketed_host on a host written in brackets
\* (an interpreter without that check accepts every such host); it is read only
\* when the netloc holds both "[" and "]".
urlparse(u, host_ok) ==
    LET stripped  == RemoveUnsafe(LStrip(u))
        i         == Find(stripped, ":", 0)
        hasScheme == /\ i > 0
                     /\ IsAlpha(stripped[1])
                     /\ \A k \in 1..i : IsSchemeChar(stripped[k])
        scheme    == IF hasScheme THEN Lower(Slice(stripped, 0, i)) ELSE <<>>
        rest      == IF hasScheme THEN From(stripped, i + 1) ELSE stripped
        hasNetloc == Len(rest) >= 2 /\ rest[1] = "/" /\ rest[2] = "/"
        netloc    == IF hasNetloc THEN SplitNetloc(rest, 2) ELSE <<>>
        open      == Contains(netloc, "[")
        close     == Contains(netloc, "]")
    IN  [raises |-> \/ (open /\ ~close)
                    \/ (close /\ ~open)
                    \/ (open /\ close /\ ~host_ok),
         scheme |-> scheme,
         netloc |-> netloc]

----------------------------------------------------------------------------
(* The two regular expressions of extract_features *)

\* the positions right after a match of \d{1,3} that starts at position p
DigitRunEnds(s, p) ==
    {p + n : n \in {m \in 1..3 : /\ p + m - 1 <= Len(s)
                                 /\ \A k \in p..(p + m - 1) : IsDigit(s[k])}}

\* the positions right after a match of k groups \d{1,3} joined by \. from p
RECURSIVE GroupsEnds(_, _, _)
GroupsEnds(s, p, k) ==
    IF k = 1 THEN DigitRunEnds(s, p)
    ELSE UNION {IF e <= Len(s) /\ s[e] = "." THEN GroupsEnds(s, e + 1, k - 1) ELSE {}
                : e \in DigitRunEnds(s, p)}

\* $ of a Python pattern: the end of the string, or right before a final newline
AtDollar(s, p) == p = Len(s) + 1 \/ (p = Len(s) /\ s[p] = "\n")

\* re.match(r'^\d{1,3}\.\d{1,3}\.\d{1,3}\.\d{1,3}$', s) is not None
IpPatternUnanchored(s) == GroupsEnds(s, 1, 4) # {}

IpPatternMatches(s) == \E e \in GroupsEnds(s, 1, 4) : AtDollar(s, e)

\* the character class [@?-_&=%]: "@", the RANGE from "?" to "_", "&", "=", "%"
InSpecialClass(c) ==
    \/ c = "@"
    \/ (Ord("?") <= Ord(c) /\ Ord(c) <= Ord("_"))
    \/ c \in {"&", "=", "%"}

\* len(re.findall(r'[@?-_&=%]', s))
CountSpecial(s) == Cardinality({i \in 1..Len(s) : InSpecialClass(s[i])})

----------------------------------------------------------------------------
(* extract_features *)

\* a first label longer than this makes long_domain 1
LongDomainLimit == 30

FeatureNames ==
    {"url_length", "hostname_length", "ip_in_url", "https_in_url", "special_chars",
     "num_dots", "at_sign", "hyphen_in_url", "hyphen_in_subdomain", "long_domain"}

\* extract_features(u): the single row of the returned DataFrame, or the
\* ValueError that urlparse raises out of it
extract_features(u, host_ok) ==
    LET parsed_url == urlparse(u, host_ok)
        netloc     == parsed_url.netloc
        parts      == Split(netloc, ".")
    IN  IF parsed_url.raises
        THEN [raised |-> TRUE]
        ELSE [raised |-> FALSE,
              features |->
                [url_length          |-> Len(u),
                 hostname_length     |-> Len(netloc),
                 ip_in_url           |-> IF IpPatternMatches(netloc) THEN 1 ELSE 0,
                 https_in_url        |-> IF parsed_url.scheme = <<"h", "t", "t", "p", "s">>
                                         THEN 1 ELSE 0,
                 special_chars       |-> CountSpecial(u),
                 num_dots            |-> Count(u, "."),
                 at_sign             |-> IF Contains(u, "@") THEN 1 ELSE 0,
                 hyphen_in_url       |-> IF Contains(u, "-") THEN 1 ELSE 0,
                 hyphen_in_subdomain |-> IF \E k \in 1..Len(parts) :
                                               \/ StartsWith(parts[k], "-")
                                               \/ EndsWith(parts[k], "-")
                                         THEN 1 ELSE 0,
                 long_domain         |-> IF Len(Split(netloc, ".")[1]) > LongDomainLimit
                                         THEN 1 ELSE 0]]

----------------------------------------------------------------------------
(* The strings the model feeds to the code *)

Placeholder == <<"h", "t", "t", "p", "s", ":", "/", "/">>

ExampleUrl ==
    <<"h", "t", "t", "p", "s", ":", "/", "/",
      "e", "x", "a", "m", "p", "l", "e", ".", "c", "o", "m">>

IpUrl ==
    <<"h", "t", "t", "p", ":", "/", "/",
      "1", "9", "2", ".", "1", "6", "8", ".", "1", ".", "1", "/", "l", "o", "g", "i", "n">>

IpPortUrl ==
    <<"h", "t", "t", "p", ":", "/", "/",
      "1", "9", "2", ".", "1", "6", "8", ".", "1", ".", "1", ":", "8", "0", "8", "0">>

BigOctetUrl ==
    <<"h", "t", "t", "p", ":", "/", "/",
      "9", "9", "9", ".", "9", "9", "9", ".", "9", "9", "9", ".", "9", "9", "9">>

UserInfoIpUrl ==
    <<"h", "t", "t", "p", "s", ":", "/", "/", "u", "@", "1", ".", "2", ".", "3", ".", "4">>

NewlineIpUrl ==
    <<"h", "t", "t", "p", ":", "/", "/", "1", ".", "2", ".", "3", ".", "4", "\n">>

LongLabelUrl ==
    <<"h", "t", "t", "p", ":", "/", "/">>
    \o [i \in 1..(LongDomainLimit + 1) |-> "a"]
    \o <<".", "c", "o", "m">>

QueryUrl ==
    <<"H", "T", "T", "P", "S", ":", "/", "/", "E", "x", "-", "a", ".", "c", "o", "m",
      "/", "?", "q", "=", "a", "_", "b", "&", "c", "=", "%", "2", "0">>

Ipv6Url == <<"h", "t", "t", "p", "s", ":", "/", "/", "[", ":", ":", "1", "]", "/">>

UnclosedUrl == <<"h", "t", "t", "p", ":", "/", "/", "[", "a">>

BlankInput == <<" ">>

PaddedPlaceholder == Placeholder \o <<" ">>

PlainUrl == <<"h", "t", "t", "p", ":", "/", "/", "a", ".", "b">>

Corpus ==
    {ExampleUrl, IpUrl, IpPortUrl, BigOctetUrl, UserInfoIpUrl, NewlineIpUrl,
     LongLabelUrl, QueryUrl, Ipv6Url, UnclosedUrl, PaddedPlaceholder, PlainUrl}

Alphabet == {"/", ":", ".", "-", "[", "]", "1", "a", "Z", "@", "?", "_", " "}

ShortStrings == UNION {[1..n -> Alphabet] : n \in 0..MaxLen}

Prefixes == {<<"/", "/">>, Placeholder}

\* the arguments extract_features is called on under SpecFx
Inputs == ShortStrings \cup {p \o s : p \in Prefixes, s \in ShortStrings} \cup Corpus

----------------------------------------------------------------------------
(* The values the variables hold while their part of the program is idle *)

NotCalled == [raised |-> FALSE, called |-> FALSE]

NoFeatures == [none |-> TRUE]

NoCalls == [extract |-> 0, predict |-> 0, proba |-> 0]

----------------------------------------------------------------------------
(* SpecFx: one call of extract_features *)

InitFx ==
    /\ url \in Inputs
    /\ result = NotCalled
    /\ pc = "fx_call"
    /\ artifact = "ok"
    /\ has_importances = FALSE
    /\ user_input = Placeholder
    /\ clicked = FALSE
    /\ model = 0
    /\ loads = 0
    /\ features_df = NoFeatures
    /\ prediction = -1
    /\ prediction_proba = <<>>
    /\ model_used = {}
    /\ exc = "none"
    /\ raised = 0
    /\ caught = 0
    /\ handled = 0
    /\ calls = NoCalls
    /\ display = <<>>
    /\ widgets = FALSE
    /\ runs = 0

CallExtractFeatures ==
    /\ pc = "fx_call"
    /\ \E host_ok \in BOOLEAN :
          result' = [called |-> TRUE] @@ extract_features(url, host_ok)
    /\ pc' = "fx_done"
    /\ UNCHANGED <<url, artifact, has_importances, user_input, clicked, model, loads,
                   features_df, prediction, prediction_proba, model_used, exc, raised,
                   caught, handled, calls, display, widgets, runs>>

NextFx == CallExtractFeatures

SpecFx == InitFx /\ [][NextFx]_vars

Returned == pc = "fx_done" /\ ~result.raised

----------------------------------------------------------------------------
(* Spec: one session of the page *)

\* what the user types into the text input
SessionInputs ==
    {<<>>, Placeholder, BlankInput, PaddedPlaceholder, PlainUrl, UnclosedUrl}

\* what joblib.load('phishing_model.pkl') can find: a loadable model, no file,
\* or a file that does not unpickle
Artifacts == {"ok", "missing", "corrupt"}

\* prediction_proba[0] = (p_safe, p_phish) in hundredths of a percent, the unit
\* that f"{p*100:.2f}%" prints
Probas == {<<9000, 1000>>, <<1000, 9000>>, <<5000, 5000>>}

\* the exceptions raised inside the try block: ValueError by urlparse,
\* TypeError by len(url) of line 113, ModelError by the classifier
Exceptions == {"ValueError", "TypeError", "ModelError"}

Element(kind, value) == [kind |-> kind, value |-> value]

Shown(kind) == \E i \in 1..Len(display) : display[i].kind = kind

Init ==
    /\ url = <<>>
    /\ result = NotCalled
    /\ artifact \in Artifacts
    /\ has_importances \in BOOLEAN
    /\ user_input = Placeholder
    /\ clicked = FALSE
    /\ pc = "load"
    /\ model = 0
    /\ loads = 0
    /\ features_df = NoFeatures
    /\ prediction = -1
    /\ prediction_proba = <<>>
    /\ model_used = {}
    /\ exc = "none"
    /\ raised = 0
    /\ caught = 0
    /\ handled = 0
    /\ calls = NoCalls
    /\ display = <<>>
    /\ widgets = FALSE
    /\ runs = 1

\* An interaction makes Streamlit run the whole script again: the page is
\* rebuilt and every name of the script, the global `model` included, is unbound
\* until the run assigns it.  Only the widget's value lives on.
StartRun(click, value) ==
    /\ pc = "idle"
    /\ runs < MaxRuns
    /\ runs' = runs + 1
    /\ clicked' = click
    /\ user_input' = value
    /\ pc' = "load"
    /\ model' = 0
    /\ features_df' = NoFeatures
    /\ prediction' = -1
    /\ prediction_proba' = <<>>
    /\ exc' = "none"
    /\ raised' = 0
    /\ caught' = 0
    /\ calls' = NoCalls
    /\ display' = <<>>
    /\ widgets' = FALSE
    /\ UNCHANGED <<url, result, artifact, has_importances, loads, model_used, handled>>

\* the user commits a new value in the text input
EditInput ==
    /\ widgets
    /\ \E v \in SessionInputs \ {user_input} : StartRun(FALSE, v)

\* the user presses the button
ClickSubmit ==
    /\ widgets
    /\ StartRun(TRUE, user_input)

\* the user asks for a rerun from the page menu
Rerun == StartRun(FALSE, user_input)

\* lines 9-32: the try block around joblib.load and its except FileNotFoundError
LoadModel ==
    /\ pc = "load"
    /\ CASE artifact = "ok" ->
              /\ model' = loads + 1
              /\ loads' = loads + 1
              /\ pc' = "page"
              /\ UNCHANGED display
         [] artifact = "missing" ->
              \* st.error(...); st.stop()
              /\ display' = Append(display, Element("config_error", -1))
              /\ pc' = "idle"
              /\ UNCHANGED <<model, loads>>
         [] artifact = "corrupt" ->
              \* not a FileNotFoundError: no clause catches it and the run ends
              \* with the toolkit's report of an uncaught exception
              /\ display' = Append(display, Element("uncaught_exception", -1))
              /\ pc' = "idle"
              /\ UNCHANGED <<model, loads>>
    /\ UNCHANGED <<url, result, artifact, has_importances, user_input, clicked,
                   features_df, prediction, prediction_proba, model_used, exc, raised,
                   caught, handled, calls, widgets, runs>>

\* lines 57-76: the page, the text input and the button
RenderPage ==
    /\ pc = "page"
    /\ widgets' = TRUE
    /\ pc' = IF clicked THEN "validate" ELSE "idle"
    /\ UNCHANGED <<url, result, artifact, has_importances, user_input, clicked, model,
                   loads, features_df, prediction, prediction_proba, model_used, exc,
                   raised, caught, handled, calls, display, runs>>

\* line 77: not user_input or user_input == "https://"
IsRejectedWhenEmpty(value) == value = <<>>

IsRejected(value) == value = <<>> \/ value = Placeholder

\* lines 77-80
Validate ==
    /\ pc = "validate"
    /\ IF IsRejected(user_input)
       THEN /\ display' = Append(display, Element("warning", -1))
            /\ pc' = "idle"
       ELSE /\ pc' = "extract"
            /\ UNCHANGED display
    /\ UNCHANGED <<url, result, artifact, has_importances, user_input, clicked, model,
                   loads, features_df, prediction, prediction_proba, model_used, exc,
                   raised, caught, handled, calls, widgets, runs>>

\* line 83
ExtractFeatures ==
    /\ pc = "extract"
    /\ calls' = [calls EXCEPT !.extract = @ + 1]
    /\ \E host_ok \in BOOLEAN :
          LET r == extract_features(user_input, host_ok)
          IN  IF r.raised
              THEN /\ exc' = "ValueError"
                   /\ raised' = raised + 1
                   /\ pc' = "except"
                   /\ UNCHANGED features_df
              ELSE /\ features_df' = r.features
                   /\ pc' = "predict"
                   /\ UNCHANGED <<exc, raised>>
    /\ UNCHANGED <<url, result, artifact, has_importances, user_input, clicked, model,
                   loads, prediction, prediction_proba, model_used, caught, handled,
                   display, widgets, runs>>

\* line 84: the classifier answers 0 or 1, or fails
Predict ==
    /\ pc = "predict"
    /\ calls' = [calls EXCEPT !.predict = @ + 1]
    /\ model_used' = model_used \cup {model}
    /\ \/ \E label \in {0, 1} :
             /\ prediction' = label
             /\ pc' = "proba"
             /\ UNCHANGED <<exc, raised>>
       \/ /\ exc' = "ModelError"
          /\ raised' = raised + 1
          /\ pc' = "except"
          /\ UNCHANGED prediction
    /\ UNCHANGED <<url, result, artifact, has_importances, user_input, clicked, model,
                   loads, features_df, prediction_proba, caught, handled, display,
                   widgets, runs>>

\* line 85
PredictProba ==
    /\ pc = "proba"
    /\ calls' = [calls EXCEPT !.proba = @ + 1]
    /\ model_used' = model_used \cup {model}
    /\ \/ \E p \in Probas :
             /\ prediction_proba' = p
             /\ pc' = "verdict"
             /\ UNCHANGED <<exc, raised>>
       \/ /\ exc' = "ModelError"
          /\ raised' = raised + 1
          /\ pc' = "except"
          /\ UNCHANGED prediction_proba
    /\ UNCHANGED <<url, result, artifact, has_importances, user_input, clicked, model,
                   loads, features_df, prediction, caught, handled, display, widgets,
                   runs>>

\* lines 87-92: the two elements of the verdict
VerdictSwapped(label, proba) ==
    IF label = 1
    THEN <<Element("phishing", -1), Element("probability", proba[1])>>
    ELSE <<Element("safe", -1), Element("probability", proba[2])>>

Verdict(label, proba) ==
    IF label = 1
    THEN <<Element("phishing", -1), Element("probability", proba[2])>>
    ELSE <<Element("safe", -1), Element("probability", proba[1])>>

\* lines 87-92
ShowVerdict ==
    /\ pc = "verdict"
    /\ display' = display \o Verdict(prediction, prediction_proba)
    /\ pc' = "render"
    /\ UNCHANGED <<url, result, artifact, has_importances, user_input, clicked, model,
                   loads, features_df, prediction, prediction_proba, model_used, exc,
                   raised, caught, handled, calls, widgets, runs>>

\* lines 95-115: the importance chart when the model has importances, then
\* len(url) for the integers of df.index, which raises TypeError; lines 118-135
\* are never reached
RenderAnalysis ==
    /\ pc = "render"
    /\ display' = IF has_importances
                  THEN Append(display, Element("importance_chart", -1))
                  ELSE display
    /\ exc' = "TypeError"
    /\ raised' = raised + 1
    /\ pc' = "except"
    /\ UNCHANGED <<url, result, artifact, has_importances, user_input, clicked, model,
                   loads, features_df, prediction, prediction_proba, model_used,
                   caught, handled, calls, widgets, runs>>

\* line 137: except Exception
CatchesValueErrorOnly(e) == e = "ValueError"

Catches(e) == e \in Exceptions

\* lines 137-139; an exception the clause does not catch ends the run with the
\* toolkit's report
HandleException ==
    /\ pc = "except"
    /\ IF Catches(exc)
       THEN /\ display' = display \o <<Element("processing_error", -1),
                                       Element("hint", -1)>>
            /\ caught' = caught + 1
            /\ handled' = handled + 1
       ELSE /\ display' = Append(display, Element("uncaught_exception", -1))
            /\ UNCHANGED <<caught, handled>>
    /\ exc' = "none"
    /\ pc' = "idle"
    /\ UNCHANGED <<url, result, artifact, has_importances, user_input, clicked, model,
                   loads, features_df, prediction, prediction_proba, model_used,
                   raised, calls, widgets, runs>>

Next ==
    \/ EditInput
    \/ ClickSubmit
    \/ Rerun
    \/ LoadModel
    \/ RenderPage
    \/ Validate
    \/ ExtractFeatures
    \/ Predict
    \/ PredictProba
    \/ ShowVerdict
    \/ RenderAnalysis
    \/ HandleException

Spec == Init /\ [][Next]_vars

----------------------------------------------------------------------------
(* Properties of extract_features, checked under SpecFx *)

\* C1: extract_features is total: every call returns a record of exactly the ten
\* fields, each a non-negative number, and never raises.
ExtractFeaturesIsTotal ==
    pc = "fx_done" =>
        /\ ~result.raised
        /\ DOMAIN result.features = FeatureNames
        /\ \A f \in FeatureNames : result.features[f] \in Nat

\* the characters the data model lists for special_chars
SpecialSet == {"@", "?", "-", "_", "&", "=", "%"}

\* C2: special_chars is the number of characters of url that are in
\* {@, ?, -, _, &, =, %}.
SpecialCharsCountsTheSet ==
    Returned =>
        result.features.special_chars
            = Cardinality({i \in 1..Len(url) : url[i] \in SpecialSet})

\* the nine values claimed for 'https://example.com', url_length being given
ExampleFeatures(length) ==
    /\ result.features.https_in_url = 1
    /\ result.features.at_sign = 0
    /\ result.features.ip_in_url = 0
    /\ result.features.num_dots = 1
    /\ result.features.hyphen_in_url = 0
    /\ result.features.long_domain = 0
    /\ result.features.hyphen_in_subdomain = 0
    /\ result.features.hostname_length = 11
    /\ result.features.hostname_length = Len(urlparse(url, TRUE).netloc)
    /\ result.features.url_length = length
    /\ result.features.url_length = Len(url)

\* C8, as stated: extract_features('https://example.com') has https_in_url=1,
\* at_sign=0, ip_in_url=0, num_dots=1, hyphen_in_url=0, long_domain=0,
\* hyphen_in_subdomain=0, hostname_length=11 and url_length=20.
ExampleUrlHasLength20 ==
    (pc = "fx_done" /\ url = ExampleUrl) => (~result.raised /\ ExampleFeatures(20))

\* C8, amended: the same values with url_length=19, the number of characters of
\* 'https://example.com'.
ExampleUrlHasLength19 ==
    (pc = "fx_done" /\ url = ExampleUrl) => (~result.raised /\ ExampleFeatures(19))

ExampleUrlExtracted == Returned /\ url = ExampleUrl /\ result.features.url_length = 19

\* s is exactly four groups of one to three decimal digits separated by dots
FourDigitGroups(s) ==
    LET groups == Split(s, ".")
    IN  /\ Len(groups) = 4
        /\ \A k \in 1..4 :
              /\ Len(groups[k]) \in 1..3
              /\ \A j \in 1..Len(groups[k]) : groups[k][j] \in
                    {"0", "1", "2", "3", "4", "5", "6", "7", "8", "9"}

\* C9: ip_in_url is 1 exactly when the whole parsed authority, port suffix and
\* userinfo included, is four dot-separated groups of 1 to 3 digits; octets are
\* not range checked (999.999.999.999 gives 1), an authority with a port gives 0
\* and an input without an authority gives 0.
IpInUrlIffFourDigitGroups ==
    Returned =>
        LET authority == urlparse(url, TRUE).netloc
            ip        == result.features.ip_in_url
        IN  /\ ip \in {0, 1}
            /\ ip = 1 <=> FourDigitGroups(authority)
            /\ url = BigOctetUrl => ip = 1
            /\ url = IpPortUrl => ip = 0
            /\ url = UserInfoIpUrl => ip = 0
            /\ authority = <<>> => ip = 0

BigOctetIsIp == Returned /\ url = BigOctetUrl /\ result.features.ip_in_url = 1

----------------------------------------------------------------------------
(* Properties of the session, checked under Spec *)

\* C3: when the button is pressed while the input is empty or the unmodified
\* placeholder, the prompt to enter a URL is shown and neither extract_features
\* nor predict / predict_proba is called.
PlaceholderSubmitIsRejected ==
    (clicked /\ user_input \in {<<>>, Placeholder}) =>
        /\ calls = NoCalls
        /\ pc \notin {"extract", "predict", "proba", "verdict", "render", "except"}
        /\ pc = "idle" => Shown("warning")

EmptySubmitPrompted ==
    /\ clicked
    /\ user_input = <<>>
    /\ pc = "idle"
    /\ Shown("warning")

\* str.strip() of surrounding whitespace
RECURSIVE Strip(_)
Strip(s) ==
    IF Len(s) > 0 /\ s[1] \in {" ", "\t", "\n"} THEN Strip(Tail(s))
    ELSE IF Len(s) > 0 /\ s[Len(s)] \in {" ", "\t", "\n"}
         THEN Strip(SubSeq(s, 1, Len(s) - 1))
         ELSE s

\* C4: the submitted string is trimmed before validation: a submission whose
\* trimmed value is empty or 'https://' is rejected with the prompt and reaches
\* neither extraction nor classification.
TrimmedSubmitIsRejected ==
    (clicked /\ Strip(user_input) \in {<<>>, Placeholder}) =>
        /\ calls = NoCalls
        /\ pc = "idle" => Shown("warning")

\* C5: when the artifact is missing or cannot be loaded, the run halts before any
\* input is accepted, a configuration-error message is shown and no submission
\* is ever processed.
LoadFailureShowsConfigError ==
    artifact # "ok" =>
        /\ ~widgets
        /\ ~clicked
        /\ calls = NoCalls
        /\ pc = "idle" => Shown("config_error")

\* the verdict elements on the page
Verdicts == SelectSeq(display, LAMBDA e : e.kind \in {"phishing", "safe"})

Probabilities == SelectSeq(display, LAMBDA e : e.kind = "probability")

\* C6: a failure of extract_features, predict, predict_proba or the rendering
\* inside the handler is caught exactly once, always produces a visible error
\* message and leaves the session able to take the next submission.
FailureCaughtOnceAndShown ==
    /\ raised <= 1
    /\ caught <= raised
    /\ (raised = 1 /\ caught = 0) => (pc = "except" /\ exc \in Exceptions)
    /\ pc = "idle" => (caught = raised /\ exc = "none")
    /\ caught = 1 =>
          /\ Len(SelectSeq(display, LAMBDA e : e.kind = "processing_error")) = 1
          /\ ~Shown("uncaught_exception")
          /\ pc = "idle"
          /\ widgets

SubmitAfterCaughtFailure ==
    /\ handled >= 1
    /\ caught = 0
    /\ clicked
    /\ calls.predict = 1
    /\ pc = "proba"

\* C7: when classification succeeds exactly one verdict is shown: label 1 shows
\* the phishing verdict with p_phish, label 0 the safe verdict with p_safe.
VerdictMatchesLabel ==
    /\ Len(Verdicts) <= 1
    /\ Len(Probabilities) = Len(Verdicts)
    /\ (prediction_proba # <<>> /\ pc # "verdict") =>
          /\ Len(Verdicts) = 1
          /\ prediction = 1 =>
                /\ Verdicts[1].kind = "phishing"
                /\ Probabilities[1].value = prediction_proba[2]
          /\ prediction = 0 =>
                /\ Verdicts[1].kind = "safe"
                /\ Probabilities[1].value = prediction_proba[1]
    /\ (prediction_proba = <<>> \/ pc = "verdict") => Len(Verdicts) = 0

PhishingVerdictShown ==
    /\ prediction = 1
    /\ prediction_proba = <<1000, 9000>>
    /\ Len(Verdicts) = 1
    /\ Verdicts[1].kind = "phishing"
    /\ Probabilities[1].value = 9000

\* C10: in one session the artifact is loaded exactly once, before the first
\* interaction, and never again; every predict / predict_proba call reads that
\* one model.
ModelLoadedOnce ==
    /\ loads <= 1
    /\ Cardinality(model_used) <= 1

====
